---- MODULE Spec2Model ----
(***************************************************************************)
(* Call-session bridge of voice_ai_openai: the Twilio media-stream          *)
(* WebSocket endpoints (main.py, src/api/routes.py), WebSocketManager       *)
(* (src/core/websocket_handler.py), RealtimeService                         *)
(* (src/services/realtime_service.py) and the persistence call              *)
(* (src/services/realtime_storage_service.py).                              *)
(*                                                                          *)
(* asyncio is cooperative: the code between two awaits runs atomically, so  *)
(* every action below is one such segment of one coroutine.                 *)
(***************************************************************************)
EXTENDS Integers, Sequences, FiniteSets, TLC

\* ------------------------------------------------------------------ bounds
\* Media frames received and backend events processed, over all connections.
MaxFrames == 2
MaxBridgeEvents == 1
MaxEvents == 4
MaxCallEvents == 2
\* response.audio.delta events processed, over all connections.
MaxDeltas == 2
\* Requests to POST /api/v1/voice/input.
MaxRequests == 3

\* ------------------------------------------------------- program constants
max_retries == 3
StoreParams == 3
StoreArgsPassed == 4
PlaceholderPrefix == 30

\* ------------------------------------------------------------ value domains
None == "None"
Conns == {"w1", "w2"}
StreamIds == {"MZ1", "MZ2"}
CallIds == {"CA1", "CA2"}
Payloads == {"AAAA", "BBBB"}
Paths == {"main", "routes"}
Items == {"T1", "T2"}
Texts == {<<>>, <<"a">>, <<"b">>}

\* Frames the telephony side can deliver while connect() is reading.  A start
\* frame with streamSid = None is one without data['start']['streamSid'];
\* "bad" is a frame json.loads rejects, "disconnect" a failing receive_text.
HandshakeFrames ==
    {[event |-> "connected", streamSid |-> None, callSid |-> None]}
    \cup [event : {"start"}, streamSid : StreamIds \cup {None}, callSid : CallIds \cup {None}]
    \cup [event : {"media", "bad", "disconnect"}, streamSid : {None}, callSid : {None}]

\* Frames of the relay loop.  "mediaNoPayload" is a media event without
\* data['media']['payload'], "mark" any other well-formed event.
FramesThatEnd == [event : {"stop", "disconnect"}, payload : {None}]
FramesThatStay ==
    [event : {"media"}, payload : Payloads]
    \cup [event : {"mediaNoPayload", "mark", "bad"}, payload : {None}]

\* A dictionary entry that may be missing: <<>> when the key is absent,
\* <<v>> when it maps to v.
Absent == <<>>
Some(v) == <<v>>
NoChunks == [user |-> <<>>, assistant |-> <<>>]

VARIABLES
    pc,                   \* position of each connection's endpoint coroutine
    path,                 \* which endpoint serves it: main.py or api/routes.py
    business_type,        \* RealtimeService.business_type of its service
    reads,                \* frames connect() has read (its local state: 0 again
                          \* once the endpoint has gone on to initialize_session)
    stream_sid, call_sid, \* what connect() returned
    active_connections,   \* WebSocketManager.active_connections
    realtime_services,    \* WebSocketManager.realtime_services
    audio_chunks,         \* WebSocketManager.audio_chunks
    ws_connection,        \* RealtimeService.ws_connection: none, open, closed
    retry_count,          \* initialize_session's retry_count (0 again once the
                          \* retry loop has been left with a connection)
    websocket_closed,     \* the relay's websocket_closed flag
    telephony_closed,     \* the endpoint called websocket.close()
    listener,             \* the handle_realtime_events task
    conversation_history, \* RealtimeService.conversation_history
    transcripts_by_item,  \* handle_realtime_events' transcripts_by_item
    timers,               \* pending add_placeholder_after_delay tasks per item
    storeCalls,           \* calls of store_realtime_conversation, per connection
    tdService,            \* the service the finally block picked from the registry
    lastFrame,            \* the frame connect() read last
    arrived,              \* payloads of the media frames received, in order
    nEvents,              \* backend events the listener has processed
    lastEv,               \* the backend event or timer expiry processed last
    seen,                 \* per item: what has been processed for it so far
    sent,                 \* messages each service has sent on its backend connection
    emitted,              \* payloads of the response.audio.delta events processed
    send_tasks,           \* pending websocket.send_text/send_json tasks, oldest first
    outbound,             \* frames written to the telephony connection
    frame_raised,         \* processing a frame has raised in the relay loop
    peer_gone,            \* the telephony peer has gone, the relay loop not yet
                          \* having read the disconnect
    http_log              \* requests to POST /api/v1/voice/input and their responses

bridgeVars == <<pc, path, business_type, reads, stream_sid, call_sid,
                active_connections, realtime_services, audio_chunks,
                ws_connection, retry_count, websocket_closed, telephony_closed,
                storeCalls, tdService, lastFrame, arrived>>
listenerVars == <<listener, conversation_history, transcripts_by_item, timers,
                  nEvents, lastEv, seen>>
audioVars == <<sent, emitted, send_tasks, outbound>>
sideVars == <<frame_raised, peer_gone, http_log>>
vars == <<bridgeVars, listenerVars, audioVars, sideVars>>

NoFrame == [event |-> "none", streamSid |-> None, callSid |-> None]
NoSeen == [deltas |-> 0, completed |-> 0, committed |-> 0, placeholders |-> 0,
           nonEmpty |-> FALSE, placeholderAfterText |-> FALSE]
NoEvent == [type |-> "none", item_id |-> None, text |-> <<>>]

RECURSIVE SumOver(_, _)
SumOver(f, S) == IF S = {} THEN 0
                 ELSE LET x == CHOOSE y \in S : TRUE IN f[x] + SumOver(f, S \ {x})

FramesArrived == SumOver([c \in Conns |-> Len(arrived[c])], Conns)
DeltasEmitted == SumOver([c \in Conns |-> Len(emitted[c])], Conns)
EventsProcessed == SumOver(nEvents, Conns)

Init ==
    /\ pc = [c \in Conns |-> "new"]
    /\ path = [c \in Conns |-> "main"]
    /\ business_type = [c \in Conns |-> "restaurant"]
    /\ reads = [c \in Conns |-> 0]
    /\ stream_sid = [c \in Conns |-> None]
    /\ call_sid = [c \in Conns |-> None]
    /\ active_connections = [s \in StreamIds |-> None]
    /\ realtime_services = [k \in CallIds |-> None]
    /\ audio_chunks = [k \in CallIds |-> Absent]
    /\ ws_connection = [c \in Conns |-> "none"]
    /\ retry_count = [c \in Conns |-> 0]
    /\ websocket_closed = [c \in Conns |-> FALSE]
    /\ telephony_closed = [c \in Conns |-> FALSE]
    /\ listener = [c \in Conns |-> "none"]
    /\ conversation_history = [c \in Conns |-> <<>>]
    /\ transcripts_by_item = [c \in Conns |-> [i \in Items |-> Absent]]
    /\ timers = [c \in Conns |-> [i \in Items |-> 0]]
    /\ storeCalls = [c \in Conns |-> <<>>]
    /\ tdService = [c \in Conns |-> None]
    /\ lastFrame = [c \in Conns |-> NoFrame]
    /\ arrived = [c \in Conns |-> <<>>]
    /\ nEvents = [c \in Conns |-> 0]
    /\ lastEv = [c \in Conns |-> NoEvent]
    /\ seen = [c \in Conns |-> [i \in Items |-> NoSeen]]
    /\ sent = [c \in Conns |-> <<>>]
    /\ emitted = [c \in Conns |-> <<>>]
    /\ send_tasks = [c \in Conns |-> <<>>]
    /\ outbound = [c \in Conns |-> <<>>]
    /\ frame_raised = [c \in Conns |-> FALSE]
    /\ peer_gone = [c \in Conns |-> FALSE]
    /\ http_log = <<>>

\* --------------------------------------------------------------- teardown

\* Python binds a call of store_realtime_conversation(self, call_sid,
\* conversation_history, audio_chunks=None) only with 2 or 3 arguments.
StoreBinds(nargs) == nargs >= 2 /\ nargs <= StoreParams

\* WebSocketManager.disconnect
disconnect(ac, sid) == IF sid # None /\ ac[sid] # None THEN [ac EXCEPT ![sid] = None] ELSE ac

\* self.audio_chunks.get(call_sid) and self.audio_chunks.get(call_sid, {}) as
\* the argument the store call receives.
ChunksArg(entry, default) ==
    IF entry = Absent
    THEN [kind |-> default, user |-> <<>>, assistant |-> <<>>]
    ELSE [kind |-> "dict", user |-> entry[1].user, assistant |-> entry[1].assistant]

\* The store call of the finally block, as the sequence of calls it adds.
StoreCallOf(c, svc) ==
    LET cid == call_sid[c] IN
    IF path[c] = "main"
    THEN << [call_sid |-> cid,
             history |-> conversation_history[svc],
             chunks |-> ChunksArg(audio_chunks[cid], "None"),
             business_type |-> business_type[svc],
             bound |-> StoreBinds(StoreArgsPassed)] >>
    ELSE IF conversation_history[c] # <<>>
         THEN << [call_sid |-> cid,
                  history |-> conversation_history[c],
                  chunks |-> ChunksArg(audio_chunks[cid], "{}"),
                  business_type |-> business_type[c],
                  bound |-> StoreBinds(StoreArgsPassed)] >>
         ELSE <<>>

\* Variant: the store call placed outside the registry guard.
TeardownOutcomeUnguarded(c, svc) ==
    LET cid == call_sid[c]
        gone == [connections |-> disconnect(active_connections, stream_sid[c]),
                 services |-> realtime_services,
                 chunks |-> [audio_chunks EXCEPT ![cid] = Absent],
                 stores |-> StoreCallOf(c, c)]
    IN IF svc = None \/ realtime_services[cid] = None THEN gone
       ELSE [gone EXCEPT !.services = [realtime_services EXCEPT ![cid] = None]]

\* Variant: the store call outside any try block, its exception ending the
\* finally block.
TeardownOutcomeStoreRaises(c, svc) ==
    LET cid == call_sid[c]
        gone == [connections |-> disconnect(active_connections, stream_sid[c]),
                 services |-> realtime_services,
                 chunks |-> [audio_chunks EXCEPT ![cid] = Absent],
                 stores |-> <<>>]
        calls == StoreCallOf(c, svc)
    IN IF svc = None THEN gone
       ELSE IF realtime_services[cid] = None \/ (calls # <<>> /\ ~calls[1].bound)
       THEN [gone EXCEPT !.chunks = audio_chunks, !.stores = calls]
       ELSE [gone EXCEPT !.services = [realtime_services EXCEPT ![cid] = None],
                         !.stores = calls]

\* The finally block after close_session() has returned, as the registries it
\* leaves and the store calls it makes; svc is the registry entry found by
\* `if call_sid in self.realtime_services` (None: no entry).
\* `del self.realtime_services[call_sid]` raises KeyError when the entry has
\* gone meanwhile: the rest of the block is skipped and the endpoint's except
\* clause calls disconnect().
TeardownOutcome(c, svc) ==
    LET cid == call_sid[c]
        gone == [connections |-> disconnect(active_connections, stream_sid[c]),
                 services |-> realtime_services,
                 chunks |-> [audio_chunks EXCEPT ![cid] = Absent],
                 stores |-> <<>>]
    IN IF svc = None THEN gone
       ELSE IF realtime_services[cid] = None
       THEN [gone EXCEPT !.chunks = audio_chunks, !.stores = StoreCallOf(c, svc)]
       ELSE [gone EXCEPT !.services = [realtime_services EXCEPT ![cid] = None],
                         !.stores = StoreCallOf(c, svc)]

TeardownRest(c, svc) ==
    LET out == TeardownOutcome(c, svc) IN
    /\ pc' = [pc EXCEPT ![c] = "done"]
    /\ active_connections' = out.connections
    /\ realtime_services' = out.services
    /\ audio_chunks' = out.chunks
    /\ storeCalls' = [storeCalls EXCEPT ![c] = @ \o out.stores]

\* Variant: close_session() dropping the connection object once closed, as
\* the except clause of initialize_session does.
close_sessionDropsConnection(ws, svc) ==
    IF ws[svc] = "none" THEN ws ELSE [ws EXCEPT ![svc] = "none"]

\* RealtimeService.close_session, and the close of _prepare_shutdown: closes
\* the connection when the service has one, and keeps the object.
close_session(ws, svc) ==
    IF ws[svc] = "none" THEN ws ELSE [ws EXCEPT ![svc] = "closed"]

\* Entering the finally block, ws being ws_connection as the code before it
\* left it: close_session() suspends only when the service has a connection
\* object to close.
TeardownEnter(c, ws) ==
    LET svc == realtime_services[call_sid[c]] IN
    /\ websocket_closed' = [websocket_closed EXCEPT ![c] = TRUE]
    /\ tdService' = [tdService EXCEPT ![c] = svc]
    /\ IF svc # None /\ ws[svc] # "none"
       THEN /\ pc' = [pc EXCEPT ![c] = "closing"]
            /\ ws_connection' = close_session(ws, svc)
            /\ UNCHANGED <<active_connections, realtime_services, audio_chunks, storeCalls>>
       ELSE /\ TeardownRest(c, svc)
            /\ ws_connection' = ws

TeardownResume(c) ==
    /\ pc[c] = "closing"
    /\ TeardownRest(c, tdService[c])
    /\ UNCHANGED <<path, business_type, reads, stream_sid, call_sid, ws_connection,
                   retry_count, websocket_closed, telephony_closed, tdService,
                   lastFrame, arrived, listenerVars, audioVars>>
    /\ UNCHANGED sideVars

\* -------------------------------------------------------------- handshake

Accept(c, p, b) ==
    /\ pc[c] = "new"
    /\ p = "routes" => b = "restaurant"
    /\ pc' = [pc EXCEPT ![c] = "connect1"]
    /\ path' = [path EXCEPT ![c] = p]
    /\ business_type' = [business_type EXCEPT ![c] = b]
    /\ UNCHANGED <<reads, stream_sid, call_sid, active_connections, realtime_services,
                   audio_chunks, ws_connection, retry_count, websocket_closed,
                   telephony_closed, storeCalls, tdService, lastFrame, arrived,
                   listenerVars, audioVars>>
    /\ UNCHANGED sideVars

\* What the endpoint does with connect()'s result, up to its next await.
EndpointAfterConnect(c, sid, cid) ==
    /\ stream_sid' = [stream_sid EXCEPT ![c] = sid]
    /\ call_sid' = [call_sid EXCEPT ![c] = cid]
    /\ IF sid # None /\ cid # None
       THEN /\ pc' = [pc EXCEPT ![c] = "init"]
            /\ realtime_services' = [realtime_services EXCEPT ![cid] = c]
            /\ audio_chunks' = IF path[c] = "routes" /\ audio_chunks[cid] = Absent
                               THEN [audio_chunks EXCEPT ![cid] = Some(NoChunks)]
                               ELSE audio_chunks
            /\ UNCHANGED telephony_closed
       ELSE /\ pc' = [pc EXCEPT ![c] = "done"]
            /\ telephony_closed' = [telephony_closed EXCEPT ![c] = TRUE]
            /\ UNCHANGED <<realtime_services, audio_chunks>>

\* Variant: reading callSid at the top level of the frame, where there is none.
ConnectResultTopLevelCallSid(f) ==
    IF f.event = "start" /\ f.streamSid # None
    THEN <<f.streamSid, None>>
    ELSE <<None, None>>

\* The result of connect() once it has read frame f and does not read on.
ConnectResult(f) ==
    IF f.event = "start" /\ f.streamSid # None
    THEN <<f.streamSid, f.callSid>>
    ELSE <<None, None>>

\* Variant: connect() reading on until a start frame arrives.
ConnectReadWaits(c, f) ==
    /\ pc[c] \in {"connect1", "connect2"}
    /\ reads' = [reads EXCEPT ![c] = @ + 1]
    /\ lastFrame' = [lastFrame EXCEPT ![c] = f]
    /\ IF f.event \in {"connected", "media"}
       THEN /\ pc' = [pc EXCEPT ![c] = "connect2"]
            /\ UNCHANGED <<stream_sid, call_sid, active_connections, realtime_services,
                           audio_chunks, telephony_closed>>
       ELSE LET r == ConnectResult(f) IN
            /\ active_connections' = IF r[1] # None
                                     THEN [active_connections EXCEPT ![r[1]] = c]
                                     ELSE active_connections
            /\ EndpointAfterConnect(c, r[1], r[2])
    /\ UNCHANGED <<path, business_type, ws_connection, retry_count, websocket_closed,
                   storeCalls, tdService, arrived, listenerVars, audioVars>>
    /\ UNCHANGED sideVars

ConnectRead(c, f) ==
    /\ pc[c] \in {"connect1", "connect2"}
    /\ reads' = [reads EXCEPT ![c] = @ + 1]
    /\ lastFrame' = [lastFrame EXCEPT ![c] = f]
    /\ IF pc[c] = "connect1" /\ f.event = "connected"
       THEN /\ pc' = [pc EXCEPT ![c] = "connect2"]
            /\ UNCHANGED <<stream_sid, call_sid, active_connections, realtime_services,
                           audio_chunks, telephony_closed>>
       ELSE LET r == ConnectResult(f) IN
            /\ active_connections' = IF r[1] # None
                                     THEN [active_connections EXCEPT ![r[1]] = c]
                                     ELSE active_connections
            /\ EndpointAfterConnect(c, r[1], r[2])
    /\ UNCHANGED <<path, business_type, ws_connection, retry_count, websocket_closed,
                   storeCalls, tdService, arrived, listenerVars, audioVars>>
    /\ UNCHANGED sideVars

\* ------------------------------------------------------- initialize_session

\* initialize_session returned False.  main.py returns at once; handle_stream
\* returns from inside its try block, which runs its finally block.
InitFailed(c, ws) ==
    IF path[c] = "main"
    THEN /\ pc' = [pc EXCEPT ![c] = "done"]
         /\ ws_connection' = ws
         /\ UNCHANGED <<active_connections, realtime_services, audio_chunks,
                        websocket_closed, storeCalls, tdService>>
    ELSE TeardownEnter(c, ws)

\* Variant: the retry loop going round while retry_count <= max_retries.
InitAttemptOneMore(c, ok) ==
    /\ pc[c] = "init"
    /\ reads' = [reads EXCEPT ![c] = 0]
    /\ IF ok
       THEN /\ pc' = [pc EXCEPT ![c] = "configure"]
            /\ ws_connection' = [ws_connection EXCEPT ![c] = "open"]
            /\ UNCHANGED <<retry_count, active_connections, realtime_services,
                           audio_chunks, websocket_closed, storeCalls, tdService>>
       ELSE /\ retry_count' = [retry_count EXCEPT ![c] = @ + 1]
            /\ IF retry_count[c] + 1 <= max_retries
               THEN /\ pc' = [pc EXCEPT ![c] = "backoff"]
                    /\ UNCHANGED <<ws_connection, active_connections, realtime_services,
                                   audio_chunks, websocket_closed, storeCalls, tdService>>
               ELSE InitFailed(c, ws_connection)
    /\ UNCHANGED <<path, business_type, stream_sid, call_sid, telephony_closed,
                   lastFrame, arrived, listenerVars, audioVars>>
    /\ UNCHANGED sideVars

\* One pass of the retry loop: ok is the outcome of websockets.connect.
InitAttempt(c, ok) ==
    /\ pc[c] = "init"
    /\ reads' = [reads EXCEPT ![c] = 0]
    /\ IF ok
       THEN /\ pc' = [pc EXCEPT ![c] = "configure"]
            /\ ws_connection' = [ws_connection EXCEPT ![c] = "open"]
            /\ UNCHANGED <<retry_count, active_connections, realtime_services,
                           audio_chunks, websocket_closed, storeCalls, tdService>>
       ELSE /\ retry_count' = [retry_count EXCEPT ![c] = @ + 1]
            /\ IF retry_count[c] + 1 < max_retries
               THEN /\ pc' = [pc EXCEPT ![c] = "backoff"]
                    /\ UNCHANGED <<ws_connection, active_connections, realtime_services,
                                   audio_chunks, websocket_closed, storeCalls, tdService>>
               ELSE InitFailed(c, ws_connection)
    /\ UNCHANGED <<path, business_type, stream_sid, call_sid, telephony_closed,
                   lastFrame, arrived, listenerVars, audioVars>>
    /\ UNCHANGED sideVars

\* The sleep between two attempts is over.
Backoff(c) ==
    /\ pc[c] = "backoff"
    /\ pc' = [pc EXCEPT ![c] = "init"]
    /\ UNCHANGED <<path, business_type, reads, stream_sid, call_sid, active_connections,
                   realtime_services, audio_chunks, ws_connection, retry_count,
                   websocket_closed, telephony_closed, storeCalls, tdService,
                   lastFrame, arrived, listenerVars, audioVars>>
    /\ UNCHANGED sideVars

\* Messages on the backend connection.
SessionUpdate == [type |-> "session.update", audio |-> None]
ItemCreate == [type |-> "conversation.item.create", audio |-> None]
ResponseCreate == [type |-> "response.create", audio |-> None]
AudioAppend(p) == [type |-> "input_audio_buffer.append", audio |-> p]

\* Variant: the initial prompt sent ahead of the configuration.
ConfigureSends == <<ItemCreate, ResponseCreate, SessionUpdate>>

\* What initialize_session sends on the connection it has opened:
\* session.update, then the two messages of send_initial_prompt.
InitialMessages == <<SessionUpdate, ItemCreate, ResponseCreate>>

\* Sending session.update: ok is whether the send succeeded.  On success the
\* relay starts and creates the listener task; on failure the except clause
\* closes the connection and sets ws_connection to None.
Configure(c, ok) ==
    /\ pc[c] = "configure"
    /\ retry_count' = [retry_count EXCEPT ![c] = 0]
    /\ IF ok
       THEN /\ pc' = [pc EXCEPT ![c] = "relay"]
            /\ listener' = [listener EXCEPT ![c] = "running"]
            /\ websocket_closed' = [websocket_closed EXCEPT ![c] = FALSE]
            /\ sent' = [sent EXCEPT ![c] = @ \o InitialMessages]
            /\ UNCHANGED <<ws_connection, active_connections, realtime_services,
                           audio_chunks, storeCalls, tdService>>
       ELSE /\ InitFailed(c, [ws_connection EXCEPT ![c] = "none"])
            /\ UNCHANGED <<listener, sent>>
    /\ UNCHANGED <<path, business_type, reads, stream_sid, call_sid,
                   telephony_closed, lastFrame, arrived, conversation_history,
                   transcripts_by_item, timers, nEvents, lastEv, seen,
                   emitted, send_tasks, outbound>>
    /\ UNCHANGED sideVars

\* ------------------------------------------------------------- relay loop

\* audio_chunks after the loop has received a media frame with payload p.
\* handle_stream indexes self.audio_chunks[call_sid] (a KeyError, swallowed,
\* when the entry is missing); handle_stream_with_service appends only
\* `if call_sid in self.audio_chunks`.
BufferInbound(chunks, cid, p) ==
    IF chunks[cid] = Absent
    THEN chunks
    ELSE [chunks EXCEPT ![cid] = Some([user |-> chunks[cid][1].user \o <<p>>,
                                        assistant |-> chunks[cid][1].assistant])]

\* Whether processing frame f raises inside the loop: invalid JSON in both
\* loops; a media event without payload only in handle_stream, which indexes
\* data['media']['payload'] where handle_stream_with_service tests for it.
Raises(p, f) ==
    \/ f.event = "bad"
    \/ p = "routes" /\ f.event = "mediaNoPayload"

\* Whether frame f ends the loop of the endpoint serving path p.  handle_stream
\* catches a frame's exception inside the loop; handle_stream_with_service
\* catches it outside.
EndsLoop(p, f) ==
    \/ f.event \in {"stop", "disconnect"}
    \/ p = "main" /\ f.event = "bad"

\* Whether the loop gets as far as process_audio_chunk for a media frame with
\* a payload: in handle_stream the KeyError of a missing buffer comes first.
ReachesBackend(p, chunks, cid) == p = "main" \/ chunks[cid] # Absent

\* Variant: process_audio_chunk sending whatever the state of the connection.
process_audio_chunkUnguarded(s, ws, p) == Append(s, AudioAppend(p))

\* RealtimeService.process_audio_chunk: the messages sent so far, after the
\* call.  Without a connection it returns at once; on a closed one the send
\* raises ConnectionClosed, which is caught.
process_audio_chunk(s, ws, p) ==
    IF ws = "open" THEN Append(s, AudioAppend(p)) ELSE s

Relay(c, f) ==
    /\ pc[c] = "relay"
    /\ peer_gone[c] => f.event = "disconnect"
    /\ frame_raised' = [frame_raised EXCEPT ![c] = @ \/ Raises(path[c], f)]
    /\ IF EndsLoop(path[c], f)
       THEN /\ TeardownEnter(c, ws_connection)
            /\ UNCHANGED <<arrived, sent>>
       ELSE /\ IF f.event = "media"
               THEN /\ FramesArrived < MaxFrames
                    /\ arrived' = [arrived EXCEPT ![c] = @ \o <<f.payload>>]
                    /\ audio_chunks' = BufferInbound(audio_chunks, call_sid[c], f.payload)
                    /\ sent' = IF ReachesBackend(path[c], audio_chunks, call_sid[c])
                               THEN [sent EXCEPT ![c] =
                                       process_audio_chunk(@, ws_connection[c], f.payload)]
                               ELSE sent
               ELSE UNCHANGED <<arrived, audio_chunks, sent>>
            /\ UNCHANGED <<pc, active_connections, realtime_services, ws_connection,
                           websocket_closed, storeCalls, tdService>>
    /\ UNCHANGED <<path, business_type, reads, stream_sid, call_sid, retry_count,
                   telephony_closed, lastFrame, listenerVars, emitted, send_tasks, outbound>>
    /\ UNCHANGED <<http_log, peer_gone>>

\* ------------------------------------------------- handle_realtime_events

AssistantDelta == "response.audio_transcript.delta"
UserDelta == "conversation.item.input_audio_transcription.delta"
UserCompleted == "conversation.item.input_audio_transcription.completed"
Committed == "input_audio_buffer.committed"
TimerExpiry == "add_placeholder_after_delay"

\* The events of the two-connection specification.
BridgeEvents == {[type |-> AssistantDelta, item_id |-> None, text |-> <<"a">>]}

BackendEvents ==
    [type : {AssistantDelta}, item_id : {None}, text : Texts]
    \cup [type : {UserDelta, UserCompleted}, item_id : Items, text : Texts]
    \cup [type : {Committed}, item_id : Items, text : {<<>>}]

Turn(role, content, item) == [role |-> role, content |-> content, item_id |-> item]

\* Appending a delta to the last entry when it has the given role, as a new
\* untagged entry otherwise.
AppendToLast(h, role, d) ==
    IF h = <<>> \/ h[Len(h)].role # role
    THEN Append(h, Turn(role, d, None))
    ELSE [h EXCEPT ![Len(h)].content = @ \o d]

\* The first user entry at which the scan of a completed transcription
\* breaks: one tagged with the item, or one with the same content (0: none).
FirstMatch(h, item, t) ==
    LET S == {i \in DOMAIN h : h[i].role = "user"
                                /\ (h[i].item_id = item \/ h[i].content = t)}
    IN IF S = {} THEN 0 ELSE CHOOSE i \in S : \A j \in S : i <= j

OnCompleted(h, item, t) ==
    LET i == FirstMatch(h, item, t) IN
    IF i = 0 THEN Append(h, Turn("user", t, item))
    ELSE IF h[i].item_id = item THEN [h EXCEPT ![i].content = t]
    ELSE h

\* conversation_history after the listener has processed event ev.
HistoryAfter(h, ev) ==
    IF ev.type = AssistantDelta THEN AppendToLast(h, "assistant", ev.text)
    ELSE IF ev.type = UserDelta THEN AppendToLast(h, "user", ev.text)
    ELSE IF ev.type = UserCompleted THEN OnCompleted(h, ev.item_id, ev.text)
    ELSE h

\* transcripts_by_item after the listener has processed event ev.
TrackedAfter(tbi, ev) ==
    IF ev.type = UserDelta
    THEN [tbi EXCEPT ![ev.item_id] = IF @ = Absent THEN Some(ev.text) ELSE Some(@[1] \o ev.text)]
    ELSE IF ev.type = UserCompleted
    THEN [tbi EXCEPT ![ev.item_id] = Some(ev.text)]
    ELSE tbi

SeenAfter(sn, ev) ==
    IF ev.type = UserDelta
    THEN [sn EXCEPT ![ev.item_id].deltas = @ + 1,
                    ![ev.item_id].nonEmpty = @ \/ ev.text # <<>>]
    ELSE IF ev.type = UserCompleted
    THEN [sn EXCEPT ![ev.item_id].completed = @ + 1,
                    ![ev.item_id].nonEmpty = @ \/ ev.text # <<>>]
    ELSE IF ev.type = Committed
    THEN [sn EXCEPT ![ev.item_id].committed = @ + 1]
    ELSE sn

\* One iteration of `async for message in self.ws_connection`; a committed
\* event creates an add_placeholder_after_delay task.
HandleEvent(c, ev, max) ==
    /\ listener[c] = "running"
    /\ ws_connection[c] = "open"
    /\ EventsProcessed < max
    /\ nEvents' = [nEvents EXCEPT ![c] = @ + 1]
    /\ conversation_history' = [conversation_history EXCEPT ![c] = HistoryAfter(@, ev)]
    /\ transcripts_by_item' = [transcripts_by_item EXCEPT ![c] = TrackedAfter(@, ev)]
    /\ timers' = IF ev.type = Committed
                 THEN [timers EXCEPT ![c][ev.item_id] = @ + 1]
                 ELSE timers
    /\ lastEv' = [lastEv EXCEPT ![c] = ev]
    /\ seen' = [seen EXCEPT ![c] = SeenAfter(@, ev)]
    /\ UNCHANGED <<bridgeVars, listener, audioVars>>
    /\ UNCHANGED sideVars

\* Codes of backend error events; None is an error event without a code.
\* Variant: invalid_request_error taken for a recoverable code as well.
RecoverableCodesWider == {"server_error", "rate_limit_exceeded", "invalid_request_error"}

RecoverableCodes == {"server_error", "rate_limit_exceeded"}
ErrorCodes == RecoverableCodes \cup {"invalid_request_error", None}
ErrorEvent == "error"

\* An iteration of the listener's loop on an error event.  A recoverable code
\* continues the loop; any other sets shutting_down and awaits
\* _prepare_shutdown, which starts with a sleep.
HandleError(c, code, max) ==
    /\ listener[c] = "running"
    /\ ws_connection[c] = "open"
    /\ EventsProcessed < max
    /\ nEvents' = [nEvents EXCEPT ![c] = @ + 1]
    /\ lastEv' = [lastEv EXCEPT ![c] = [type |-> ErrorEvent, item_id |-> None, text |-> <<code>>]]
    /\ listener' = IF code \in RecoverableCodes
                   THEN listener
                   ELSE [listener EXCEPT ![c] = "shutting_down"]
    /\ UNCHANGED <<bridgeVars, conversation_history, transcripts_by_item, timers,
                   seen, audioVars>>
    /\ UNCHANGED sideVars

\* Messages whose processing raises inside the listener's loop: one that
\* json.loads rejects, and a response.function_call event.
Malformed == "malformed"
FunctionCall == "response.function_call"
Functions == {"search_menu", "create_reservation", "search_services", "create_appointment"}

\* _handle_function_call: whether the call raises.  search_menu is
\* implemented; the other three are dispatched, for their business type, to
\* methods the class does not define (AttributeError); a name that does not
\* go with the business type is answered with an error result.
FunctionRaises(b, name) ==
    \/ b = "restaurant" /\ name = "create_reservation"
    \/ b = "salon" /\ name \in {"search_services", "create_appointment"}

RaisingMessages ==
    {[type |-> Malformed, item_id |-> None, text |-> <<>>]}
    \cup [type : {FunctionCall}, item_id : {None}, text : {<<f>> : f \in Functions}]

MessageRaises(b, m) ==
    IF m.type = Malformed THEN TRUE ELSE FunctionRaises(b, m.text[1])

\* An iteration of the listener's loop on a message whose processing raises:
\* the exception leaves the `async for` and is logged by the except clause
\* around it; the listener returns, the connection staying as it is.
HandleRaising(c, m, max) ==
    /\ listener[c] = "running"
    /\ ws_connection[c] = "open"
    /\ EventsProcessed < max
    /\ MessageRaises(business_type[c], m)
    /\ nEvents' = [nEvents EXCEPT ![c] = @ + 1]
    /\ lastEv' = [lastEv EXCEPT ![c] = m]
    /\ listener' = [listener EXCEPT ![c] = "ended"]
    /\ UNCHANGED <<bridgeVars, conversation_history, transcripts_by_item, timers,
                   seen, audioVars>>
    /\ UNCHANGED sideVars

\* _prepare_shutdown after its sleep: closes the connection if the service
\* has one; the listener then breaks out of its loop and returns.
PrepareShutdown(c) ==
    /\ listener[c] = "shutting_down"
    /\ ws_connection' = close_session(ws_connection, c)
    /\ listener' = [listener EXCEPT ![c] = "ended"]
    /\ UNCHANGED <<pc, path, business_type, reads, stream_sid, call_sid,
                   active_connections, realtime_services, audio_chunks, retry_count,
                   websocket_closed, telephony_closed, storeCalls, tdService,
                   lastFrame, arrived, conversation_history, transcripts_by_item,
                   timers, nEvents, lastEv, seen, audioVars>>
    /\ UNCHANGED sideVars

\* `async for message in self.ws_connection` ends once the connection has
\* been closed: the listener returns.
ListenerEnd(c) ==
    /\ listener[c] = "running"
    /\ ws_connection[c] = "closed"
    /\ listener' = [listener EXCEPT ![c] = "ended"]
    /\ UNCHANGED <<bridgeVars, conversation_history, transcripts_by_item, timers,
                   nEvents, lastEv, seen, audioVars>>
    /\ UNCHANGED sideVars

\* ----------------------------------------------------- send_audio_to_twilio

MediaFrame(sid, p) == [event |-> "media", streamSid |-> sid, payload |-> p]

\* Whether the callback creates a send task.  Both versions skip when
\* websocket_closed is set; handle_stream's first appends to
\* self.audio_chunks[call_sid]["assistant"], a KeyError (caught, nothing
\* sent) when the buffer is missing.
SchedulesSend(c) ==
    /\ ~websocket_closed[c]
    /\ path[c] = "routes" => audio_chunks[call_sid[c]] # Absent

BufferOutbound(chunks, cid, p) ==
    [chunks EXCEPT ![cid] = Some([user |-> chunks[cid][1].user,
                                  assistant |-> chunks[cid][1].assistant \o <<p>>])]

\* An iteration of the listener's loop on a response.audio.delta event with
\* payload p: the callback runs synchronously inside it.
AudioDelta(c, p) ==
    /\ listener[c] = "running"
    /\ ws_connection[c] = "open"
    /\ DeltasEmitted < MaxDeltas
    /\ emitted' = [emitted EXCEPT ![c] = Append(@, p)]
    /\ IF SchedulesSend(c)
       THEN /\ send_tasks' = [send_tasks EXCEPT ![c] = Append(@, MediaFrame(stream_sid[c], p))]
            /\ audio_chunks' = IF path[c] = "routes"
                               THEN BufferOutbound(audio_chunks, call_sid[c], p)
                               ELSE audio_chunks
       ELSE UNCHANGED <<send_tasks, audio_chunks>>
    /\ UNCHANGED <<pc, path, business_type, reads, stream_sid, call_sid,
                   active_connections, realtime_services, ws_connection, retry_count,
                   websocket_closed, telephony_closed, storeCalls, tdService,
                   lastFrame, arrived, listenerVars, sent, outbound>>
    /\ UNCHANGED sideVars

\* The telephony side drops the connection while the relay loop is waiting in
\* receive_text: from now on writes fail and the next read raises.
PeerGone(c) ==
    /\ pc[c] = "relay"
    /\ ~peer_gone[c]
    /\ peer_gone' = [peer_gone EXCEPT ![c] = TRUE]
    /\ UNCHANGED <<bridgeVars, listenerVars, audioVars, frame_raised, http_log>>

\* Variant: the newest pending send task running first.
SendTaskRunNewestFirst(c, ok) ==
    /\ send_tasks[c] # <<>>
    /\ ok => pc[c] # "done" /\ ~peer_gone[c]
    /\ ~ok => websocket_closed[c] \/ peer_gone[c]
    /\ IF ok
       THEN /\ outbound' = [outbound EXCEPT ![c] = Append(@, send_tasks[c][Len(send_tasks[c])])]
            /\ send_tasks' = [send_tasks EXCEPT ![c] = SubSeq(@, 1, Len(@) - 1)]
       ELSE /\ send_tasks' = [send_tasks EXCEPT ![c] = <<>>]
            /\ UNCHANGED outbound
    /\ UNCHANGED <<bridgeVars, listenerVars, sent, emitted>>
    /\ UNCHANGED sideVars

\* The oldest pending send task runs (the event loop starts tasks in the
\* order of their creation).  ok: the telephony connection takes the frame.
\* A write can fail only once the relay loop has ended or the telephony side
\* has gone, and it fails once the endpoint has returned or the telephony
\* side has gone; after a failed write every pending one fails too.  The
\* exception of a failed write stays in its task: nobody awaits the task.
SendTaskRun(c, ok) ==
    /\ send_tasks[c] # <<>>
    /\ ok => pc[c] # "done" /\ ~peer_gone[c]
    /\ ~ok => websocket_closed[c] \/ peer_gone[c]
    /\ IF ok
       THEN /\ outbound' = [outbound EXCEPT ![c] = Append(@, Head(send_tasks[c]))]
            /\ send_tasks' = [send_tasks EXCEPT ![c] = Tail(@)]
       ELSE /\ send_tasks' = [send_tasks EXCEPT ![c] = <<>>]
            /\ UNCHANGED outbound
    /\ UNCHANGED <<bridgeVars, listenerVars, sent, emitted>>
    /\ UNCHANGED sideVars

\* ---------------------------------------------- add_placeholder_after_delay

PlaceholderOpen == "[User response not transcribed "
PlaceholderClose == "]"

Prefix(t, n) == SubSeq(t, 1, IF Len(t) < n THEN Len(t) ELSE n)

\* Content of the last assistant entry ("" when there is none).
LastAssistantMsg(h) ==
    LET S == {i \in DOMAIN h : h[i].role = "assistant"} IN
    IF S = {} THEN <<>> ELSE h[CHOOSE i \in S : \A j \in S : j <= i].content

PlaceholderText(h) ==
    LET last == LastAssistantMsg(h)
        context == IF last # <<>>
                   THEN <<"[Responding to: '">> \o Prefix(last, PlaceholderPrefix) \o <<"...']">>
                   ELSE <<>>
    IN <<PlaceholderOpen>> \o context \o <<PlaceholderClose>>

\* Whether the expired timer of the item adds a placeholder.
NeedsPlaceholder(h, tbi, item) ==
    /\ tbi[item] = Absent \/ tbi[item][1] = <<>>
    /\ ~ \E i \in DOMAIN h : h[i].role = "user" /\ h[i].item_id = item

\* A timer task resumes after its sleep.
TimerFire(c, item) ==
    /\ timers[c][item] > 0
    /\ timers' = [timers EXCEPT ![c][item] = @ - 1]
    /\ lastEv' = [lastEv EXCEPT ![c] = [type |-> TimerExpiry, item_id |-> item, text |-> <<>>]]
    /\ LET h == conversation_history[c]
           tbi == transcripts_by_item[c]
       IN IF NeedsPlaceholder(h, tbi, item)
          THEN /\ conversation_history' =
                    [conversation_history EXCEPT ![c] = Append(h, Turn("user", PlaceholderText(h), item))]
               /\ transcripts_by_item' =
                    [transcripts_by_item EXCEPT ![c][item] = Some(PlaceholderText(h))]
               /\ seen' = [seen EXCEPT ![c][item].placeholders = @ + 1,
                                       ![c][item].placeholderAfterText = @ \/ seen[c][item].nonEmpty]
          ELSE UNCHANGED <<conversation_history, transcripts_by_item, seen>>
    /\ UNCHANGED <<bridgeVars, listener, nEvents, audioVars>>
    /\ UNCHANGED sideVars

\* ------------------------------------------------- POST /api/v1/voice/input

\* The body of a request: its audio_url field as the parts of the URL, or
\* the body that has no such field.
Url(scheme, host, rest) == [field |-> TRUE, scheme |-> scheme, host |-> host, rest |-> rest]
NoAudioUrl == [field |-> FALSE, scheme |-> "", host |-> "", rest |-> ""]
AudioUrls == {Url("https", "example.com", "/test-audio.wav"),
              Url("http", "example.com", ""),
              Url("", "", "invalid-url"),
              Url("ftp", "example.com", "/a.wav"),
              Url("https", "", "/a.wav")}
VoiceBodies == AudioUrls \cup {NoAudioUrl}

\* Validation of the body against VoiceInput (audio_url: HttpUrl), which
\* FastAPI runs before the handler: the field is there, its scheme is http or
\* https and it names a host.
ValidVoiceInput(body) ==
    /\ body.field
    /\ body.scheme \in {"http", "https"}
    /\ body.host # ""

\* Variant: any body with an audio_url field passing the validation.
VoiceInputResponseUnvalidated(body) ==
    IF body.field
    THEN [status |-> 200, response_text |-> Some("This is a placeholder response.")]
    ELSE [status |-> 422, response_text |-> Absent]

\* The response to a request: 422 from the validation, else what
\* handle_voice_input returns (a validated audio_url is never falsy, so its
\* own 422 branch is not taken).
VoiceInputResponse(body) ==
    IF ValidVoiceInput(body)
    THEN [status |-> 200, response_text |-> Some("This is a placeholder response.")]
    ELSE [status |-> 422, response_text |-> Absent]

PostVoiceInput(body) ==
    /\ Len(http_log) < MaxRequests
    /\ http_log' = Append(http_log, [request |-> body, response |-> VoiceInputResponse(body)])
    /\ UNCHANGED <<bridgeVars, listenerVars, audioVars, frame_raised, peer_gone>>

\* ---------------------------------------------------------- specifications

Next ==
    \E c \in Conns :
        \/ \E p \in Paths, b \in {"restaurant", "salon"} : Accept(c, p, b)
        \/ \E f \in HandshakeFrames : ConnectRead(c, f)
        \/ \E ok \in BOOLEAN : InitAttempt(c, ok)
        \/ \E ok \in BOOLEAN : Configure(c, ok)
        \/ \E f \in FramesThatStay \cup FramesThatEnd : Relay(c, f)
        \/ TeardownResume(c)
        \/ \E ev \in BridgeEvents : HandleEvent(c, ev, MaxBridgeEvents)
        \/ Backoff(c)

Spec == Init /\ [][Next]_vars

\* One call on the main.py endpoint, its handshake and its backend connection
\* succeeding, with a longer backend event stream.
GoodHandshake ==
    {f \in HandshakeFrames : f.event = "connected"
                             \/ (f.event = "start" /\ f.streamSid = "MZ1" /\ f.callSid = "CA1")}

NextT ==
    \/ Accept("w1", "main", "restaurant")
    \/ \E f \in GoodHandshake : ConnectRead("w1", f)
    \/ InitAttempt("w1", TRUE)
    \/ Configure("w1", TRUE)
    \/ \E f \in FramesThatEnd : Relay("w1", f)
    \/ TeardownResume("w1")
    \/ \E ev \in BackendEvents : HandleEvent("w1", ev, MaxEvents)
    \/ \E i \in Items : TimerFire("w1", i)

SpecT == Init /\ [][NextT]_vars

\* One call on either endpoint, its handshake succeeding, with every outcome
\* of the backend connection, error events, audio in both directions and the
\* tasks the listener leaves behind.
CallEvents == {[type |-> AssistantDelta, item_id |-> None, text |-> <<"a">>],
               [type |-> Committed, item_id |-> "T1", text |-> <<>>]}

NextC ==
    \/ \E p \in Paths, b \in {"restaurant", "salon"} : Accept("w1", p, b)
    \/ \E f \in GoodHandshake : ConnectRead("w1", f)
    \/ \E ok \in BOOLEAN : InitAttempt("w1", ok)
    \/ Backoff("w1")
    \/ \E ok \in BOOLEAN : Configure("w1", ok)
    \/ \E f \in FramesThatStay \cup FramesThatEnd : Relay("w1", f)
    \/ TeardownResume("w1")
    \/ \E ev \in CallEvents : HandleEvent("w1", ev, MaxCallEvents)
    \/ \E code \in ErrorCodes : HandleError("w1", code, MaxCallEvents)
    \/ \E m \in RaisingMessages : HandleRaising("w1", m, MaxCallEvents)
    \/ PrepareShutdown("w1")
    \/ ListenerEnd("w1")
    \/ \E p \in Payloads : AudioDelta("w1", p)
    \/ \E ok \in BOOLEAN : SendTaskRun("w1", ok)
    \/ PeerGone("w1")
    \/ TimerFire("w1", "T1")

SpecC == Init /\ [][NextC]_vars

\* Requests to POST /api/v1/voice/input.
NextV == \E body \in VoiceBodies : PostVoiceInput(body)

SpecV == Init /\ [][NextV]_vars

\* Two calls on the main.py endpoint whose start frames carry the same
\* callSid, under the scheduling of the event loop: a coroutine that can
\* resume does resume (a finally block after close_session, a sleep that is
\* over, a listener whose connection has been closed, a created task).
\* Nothing obliges the telephony side or the backend to send anything.
SharedCallStart == [event : {"start"}, streamSid : StreamIds, callSid : {"CA1"}]
FatalError == "invalid_request_error"
CommittedT1 == [type |-> Committed, item_id |-> "T1", text |-> <<>>]

NextF ==
    \E c \in Conns :
        \/ Accept(c, "main", "restaurant")
        \/ \E f \in SharedCallStart : ConnectRead(c, f)
        \/ InitAttempt(c, TRUE)
        \/ Configure(c, TRUE)
        \/ \E f \in FramesThatEnd : Relay(c, f)
        \/ TeardownResume(c)
        \/ HandleEvent(c, CommittedT1, MaxCallEvents)
        \/ HandleError(c, FatalError, MaxCallEvents)
        \/ PrepareShutdown(c)
        \/ ListenerEnd(c)
        \/ AudioDelta(c, "AAAA")
        \/ \E ok \in BOOLEAN : SendTaskRun(c, ok)
        \/ TimerFire(c, "T1")

EventLoop ==
    \A c \in Conns :
        /\ WF_vars(TeardownResume(c))
        /\ WF_vars(PrepareShutdown(c))
        /\ WF_vars(ListenerEnd(c))
        /\ WF_vars(\E ok \in BOOLEAN : SendTaskRun(c, ok))
        /\ WF_vars(TimerFire(c, "T1"))

SpecF == Init /\ [][NextF]_vars /\ EventLoop

\* ------------------------------------------------------------------ claims

InConnect(c) == pc[c] \in {"connect1", "connect2"}
\* connect() returns in this step.
ConnectReturns(c) == InConnect(c) /\ ~InConnect(c)'
\* A start frame carrying both identifiers.
GoodStart(f) == f.event = "start" /\ f.streamSid # None /\ f.callSid # None
\* A start frame from which connect() can take a streamSid.
UsableStart(f) == f.event = "start" /\ f.streamSid # None

\* C1: when connect() returns after reading a start frame carrying streamSid
\* and callSid, as its first frame or right after a connected frame, it returns
\* exactly these two and active_connections maps that streamSid to the
\* connection.
C1_Handshake ==
    [][\A c \in Conns :
          ConnectReturns(c) /\ GoodStart(lastFrame'[c]) =>
              /\ stream_sid'[c] = lastFrame'[c].streamSid
              /\ call_sid'[c] = lastFrame'[c].callSid
              /\ active_connections'[lastFrame'[c].streamSid] = c]_vars

\* One connection is past a connected-then-start handshake and another past a
\* start-only handshake, each holding the identifiers of its start frame.
C1_Witness ==
    \E c1, c2 \in Conns :
        /\ pc[c1] = "init" /\ reads[c1] = 2 /\ GoodStart(lastFrame[c1])
        /\ pc[c2] = "init" /\ reads[c2] = 1 /\ GoodStart(lastFrame[c2])
        /\ \A c \in {c1, c2} : /\ stream_sid[c] = lastFrame[c].streamSid
                               /\ call_sid[c] = lastFrame[c].callSid

\* C2: connect() never reads more than two frames, and when the last frame it
\* read is not a usable start frame (first frame neither connected nor start,
\* frame after connected not start, unreadable or unparsable frame) it returns
\* (None, None); the endpoint then closes the telephony connection and ends
\* without registering a service, a connection or a backend connection.
C2_HandshakeFailure ==
    [][\A c \in Conns :
          /\ reads'[c] <= 2
          /\ ConnectReturns(c) /\ ~UsableStart(lastFrame'[c]) =>
                /\ stream_sid'[c] = None /\ call_sid'[c] = None
                /\ telephony_closed'[c] /\ pc'[c] = "done"
                /\ realtime_services' = realtime_services
                /\ active_connections' = active_connections
                /\ audio_chunks' = audio_chunks
                /\ ws_connection'[c] = "none"]_vars

\* A handshake that failed at its second frame: connected, then something
\* that is no start frame.
C2_Witness ==
    \E c \in Conns :
        /\ pc[c] = "done" /\ reads[c] = 2 /\ lastFrame[c].event \in {"connected", "media", "bad", "disconnect"}
        /\ stream_sid[c] = None /\ telephony_closed[c]

\* C3 (as claimed): at every persistence handoff the inbound buffer handed
\* over holds exactly the payloads of the media frames the session received,
\* in arrival order.
C3_InboundBufferOrder ==
    \A c \in Conns : \A i \in DOMAIN storeCalls[c] :
        storeCalls[c][i].chunks.user = arrived[c]

\* A call that went through handshake and backend initialisation.
Started(c) == listener[c] # "none"

\* C4 (as claimed): a call whose handshake and backend initialisation
\* succeeded has, once it has ended, exactly one store_realtime_conversation
\* invocation, carrying its callId, transcript, audio buffers and business type.
C4_HandoffExactlyOnce ==
    \A c \in Conns :
        Started(c) /\ pc[c] = "done" =>
            /\ Len(storeCalls[c]) = 1
            /\ storeCalls[c][1].bound
            /\ storeCalls[c][1].call_sid = call_sid[c]
            /\ storeCalls[c][1].history = conversation_history[c]
            /\ storeCalls[c][1].business_type = business_type[c]

\* The finally block run once more on the state it left.
SecondRun(c) == TeardownOutcome(c, realtime_services[call_sid[c]])
\* The finally block of c completes in this step.
TeardownCompletes(c) == pc[c] # "done" /\ pc'[c] = "done" /\ websocket_closed'[c]

\* C5: when the finally block of a session has completed, running it again on
\* the state it left makes no store call and removes no registry entry, and
\* leaves realtime_services without the callId, active_connections without
\* the streamId and audio_chunks without the callId; a session that is done
\* stays done.
C5_IdempotentTeardown ==
    [][\A c \in Conns :
          /\ pc[c] = "done" => pc'[c] = "done"
          /\ TeardownCompletes(c) =>
                /\ SecondRun(c)'.stores = <<>>
                /\ SecondRun(c)'.services = realtime_services'
                /\ SecondRun(c)'.services[call_sid'[c]] = None
                /\ SecondRun(c)'.connections[stream_sid'[c]] = None
                /\ SecondRun(c)'.chunks[call_sid'[c]] = Absent]_vars

\* A started call whose teardown has made its store call and removed its
\* registry entry.
C5_Witness ==
    \E c \in Conns :
        /\ Started(c) /\ pc[c] = "done" /\ Len(storeCalls[c]) = 1
        /\ realtime_services[call_sid[c]] = None
        /\ Len(arrived[c]) > 0

\* ------------------------------------------------------ transcript claims

UserTurns(h) == SelectSeq(h, LAMBDA e : e.role = "user")
TaggedTurns(h, item) == SelectSeq(h, LAMBDA e : e.role = "user" /\ e.item_id = item)
IsPlaceholder(t) == t # <<>> /\ t[1] = PlaceholderOpen
\* No input-transcription event and no timer has touched the other items.
OnlyItem(c, item) == \A j \in Items \ {item} : seen[c][j] = NoSeen
\* The listener's last step processed a transcription event for the item.
JustTranscribed(c, item) ==
    lastEv[c].type \in {UserDelta, UserCompleted} /\ lastEv[c].item_id = item

\* C6 (as claimed): two input-transcription deltas of one item, here both with
\* text, whatever other backend events come before, between or after them,
\* leave exactly one user turn, whose text is the two deltas concatenated in
\* arrival order.
C6_TranscriptMerge ==
    \A c \in Conns : \A item \in Items :
        /\ seen[c][item].deltas = 2 /\ seen[c][item].completed = 0
        /\ seen[c][item].committed = 0 /\ OnlyItem(c, item)
        /\ Len(transcripts_by_item[c][item][1]) = 2
        => /\ Len(UserTurns(conversation_history[c])) = 1
           /\ UserTurns(conversation_history[c])[1].content = transcripts_by_item[c][item][1]

\* C7 (as claimed): once a completed transcription of an item has been
\* processed, processing a later transcription event of that item (here one
\* with text) adds no turn and leaves the item's turn with exactly the later
\* event's text.
C7_FinalizationOverwrite ==
    [][\A c \in Conns : \A item \in Items :
          /\ nEvents'[c] = nEvents[c] + 1
          /\ JustTranscribed(c, item)' /\ lastEv'[c].text # <<>>
          /\ seen[c][item].completed >= 1
          => /\ Len(conversation_history'[c]) = Len(conversation_history[c])
             /\ Len(TaggedTurns(conversation_history'[c], item)) = 1
             /\ TaggedTurns(conversation_history'[c], item)[1].content = lastEv'[c].text]_vars

\* C8 (as claimed): interim deltas of an item followed by its completed
\* transcription (here one with text) leave exactly one user turn for the
\* item, and its text is the completed transcript.
C8_CompletedAfterDeltas ==
    \A c \in Conns : \A item \in Items :
        /\ lastEv[c].type = UserCompleted /\ lastEv[c].item_id = item
        /\ lastEv[c].text # <<>>
        /\ seen[c][item].deltas >= 1 /\ seen[c][item].completed = 1
        /\ seen[c][item].committed = 0 /\ OnlyItem(c, item)
        => /\ Len(UserTurns(conversation_history[c])) = 1
           /\ UserTurns(conversation_history[c])[1].content = lastEv[c].text

\* The first half of C9: a timer of an item expiring when no delta and no
\* completed transcription of the item has been processed leaves exactly one
\* user turn tagged with the item, a placeholder.
PlaceholderWhenMissing ==
    \A c \in Conns : \A item \in Items :
        /\ lastEv[c].type = TimerExpiry /\ lastEv[c].item_id = item
        /\ seen[c][item].deltas = 0 /\ seen[c][item].completed = 0
        => /\ Len(TaggedTurns(conversation_history[c], item)) = 1
           /\ IsPlaceholder(TaggedTurns(conversation_history[c], item)[1].content)

\* C9 (as claimed): the first half, and no placeholder is ever inserted for an
\* item of which a non-empty transcript had been processed before the expiry.
C9_PlaceholderOnMissing ==
    /\ PlaceholderWhenMissing
    /\ \A c \in Conns : \A item \in Items : ~seen[c][item].placeholderAfterText

\* C10 (as claimed): the first transcription event of an item (here one with
\* text) processed after the item's placeholder was inserted leaves exactly
\* one user turn for the item, whose text is that transcript.
C10_LateTranscript ==
    \A c \in Conns : \A item \in Items :
        /\ JustTranscribed(c, item) /\ lastEv[c].text # <<>>
        /\ seen[c][item].placeholders >= 1
        /\ seen[c][item].deltas + seen[c][item].completed = 1
        /\ OnlyItem(c, item)
        => /\ Len(UserTurns(conversation_history[c])) = 1
           /\ UserTurns(conversation_history[c])[1].item_id = item
           /\ UserTurns(conversation_history[c])[1].content = lastEv[c].text

\* -------------------------------------------------------- teardown claims

\* The session of c, active until now, has ended with this step.
SessionEnds(c) == Started(c) /\ pc[c] \in {"relay", "closing"} /\ pc'[c] = "done"
\* The finally block of c runs to its end in this step.
FinallyEnds(c) == pc[c] # "done" /\ pc'[c] = "done" /\ websocket_closed'[c]
\* The store call the finally block of c has made in this step, if any.
NewStoreCalls(c) == SubSeq(storeCalls'[c], Len(storeCalls[c]) + 1, Len(storeCalls'[c]))

\* C11 (as claimed): whenever an active session ends, its backend connection
\* has been closed and a store call has been made that carries the audio
\* buffers as they were before being discarded; and a registry entry
\* disappears only in a step that ends a finally block.
C11_TeardownOrdering ==
    [][/\ \A c \in Conns :
             SessionEnds(c) =>
                /\ ws_connection'[c] = "closed"
                /\ Len(NewStoreCalls(c)) = 1
                /\ NewStoreCalls(c)[1].chunks.user = arrived[c]
       /\ \A k \in CallIds :
             realtime_services[k] # None /\ realtime_services'[k] = None =>
                \E c \in Conns : FinallyEnds(c) /\ call_sid[c] = k]_vars

\* C12 (as claimed): a call whose handshake succeeded and whose
\* initialize_session returned False has started neither relay loop nor
\* listener, and once its endpoint has returned the registries hold nothing
\* under its identifiers.
C12_InitFailureClosed ==
    \A c \in Conns :
        pc[c] = "done" /\ call_sid[c] # None /\ stream_sid[c] # None /\ ~Started(c) =>
            /\ arrived[c] = <<>>
            /\ realtime_services[call_sid[c]] = None
            /\ active_connections[stream_sid[c]] = None
            /\ audio_chunks[call_sid[c]] = Absent

\* C18: a finally block whose store call raises (the arguments do not bind)
\* still runs to its end in the same step: the endpoint is done, and
\* realtime_services has no entry for the callId, audio_chunks none for the
\* callId and active_connections none for the streamId.
C18_PersistenceFailure ==
    [][\A c \in Conns :
          NewStoreCalls(c) # <<>> /\ ~NewStoreCalls(c)[1].bound =>
             /\ pc'[c] = "done"
             /\ realtime_services'[call_sid[c]] = None
             /\ audio_chunks'[call_sid[c]] = Absent
             /\ active_connections'[stream_sid[c]] = None]_vars

\* A call on the routes.py endpoint, with a transcript and a buffered frame,
\* whose store call raised and whose registry entries are gone.
C18_Witness ==
    \E c \in Conns :
        /\ path[c] = "routes" /\ pc[c] = "done"
        /\ Len(storeCalls[c]) = 1 /\ ~storeCalls[c][1].bound
        /\ storeCalls[c][1].chunks.user # <<>>
        /\ realtime_services[call_sid[c]] = None
        /\ audio_chunks[call_sid[c]] = Absent
        /\ active_connections[stream_sid[c]] = None

\* The session of c holds a callId and its endpoint has not returned.
Live(c) == pc[c] \in {"init", "backoff", "configure", "relay", "closing"}

\* C19 (as claimed): realtime_services maps the callId of every live session
\* to that session, and a finally block that finds an entry finds its own
\* session there, whatever other connections do.
C19_RegistryInvariant ==
    \A c \in Conns :
        /\ Live(c) => realtime_services[call_sid[c]] = c
        /\ pc[c] \in {"closing", "done"} /\ tdService[c] # None => tdService[c] = c

\* ------------------------------------------------- backend session claims

\* initialize_session makes a connection attempt in this step.
AttemptStep(c) == pc[c] = "init" /\ pc'[c] # "init"

\* C13: a connection attempt is made only after fewer than max_retries
\* failures; a successful attempt goes on to the configuration and no attempt
\* or wait follows it; a wait is entered only from a failed attempt that
\* leaves another one to make, and only an attempt follows it; the attempt
\* that fails as the max_retries-th ends initialize_session (the endpoint
\* returns or runs its finally block) with no connection, nothing sent to the
\* backend and no listener.
C13_BoundedRetry ==
    [][\A c \in Conns :
          /\ AttemptStep(c) => retry_count[c] < max_retries
          /\ AttemptStep(c) /\ ws_connection'[c] = "open" =>
                pc'[c] = "configure" /\ retry_count'[c] = retry_count[c]
          /\ pc[c] \in {"configure", "relay", "closing", "done"} =>
                pc'[c] \notin {"init", "backoff"}
          /\ pc'[c] = "backoff" /\ pc[c] # "backoff" =>
                /\ AttemptStep(c) /\ ws_connection'[c] = "none"
                /\ retry_count'[c] = retry_count[c] + 1
                /\ retry_count'[c] < max_retries
          /\ pc[c] = "backoff" => pc'[c] \in {"backoff", "init"}
          /\ AttemptStep(c) /\ retry_count'[c] = max_retries =>
                /\ pc'[c] \in {"closing", "done"}
                /\ ws_connection'[c] = "none"
                /\ sent'[c] = <<>>
                /\ listener'[c] = "none"]_vars

\* initialize_session has given up after max_retries failed attempts.
C13_Witness ==
    \E c \in Conns :
        /\ retry_count[c] = max_retries /\ pc[c] = "done"
        /\ ws_connection[c] = "none" /\ sent[c] = <<>>

\* The relay loop of c takes a media frame with a payload in this step.
MediaStep(c) == pc[c] = "relay" /\ arrived'[c] # arrived[c]

\* C14: a media frame taken while the service has no open backend
\* connection sends nothing to the backend, changes neither transcript nor
\* registry nor backend connection, leaves the buffers as the loop's own
\* append left them, and leaves the relay loop running.
C14_SendAudioNoOp ==
    [][\A c \in Conns :
          MediaStep(c) /\ ws_connection[c] # "open" =>
             /\ sent' = sent
             /\ conversation_history' = conversation_history
             /\ realtime_services' = realtime_services
             /\ ws_connection' = ws_connection
             /\ audio_chunks' = BufferInbound(audio_chunks, call_sid[c],
                                              arrived'[c][Len(arrived'[c])])
             /\ pc'[c] = "relay"]_vars

\* A relay loop still running after a frame it forwarded and a frame that
\* came when the backend connection was closed.
C14_Witness ==
    \E c \in Conns :
        /\ pc[c] = "relay" /\ ws_connection[c] = "closed"
        /\ Len(arrived[c]) = 2
        /\ sent[c] = <<SessionUpdate, ItemCreate, ResponseCreate, AudioAppend(arrived[c][1])>>

\* The finally block of c calls close_session in this step.
CloseCall(c) ==
    /\ pc[c] \notin {"closing", "done"} /\ pc'[c] \in {"closing", "done"}
    /\ websocket_closed'[c] /\ tdService'[c] # None

\* C15: a call of close_session, and the close of _prepare_shutdown, leaves
\* a connection that exists closed and changes nothing when none exists
\* (after a failed initialize_session, which has dropped the connection
\* itself), whether or not it was closed before; a closed connection stays
\* closed;
\* and the caller goes on (the finally block to its store call, the
\* listener to its end).
C15_CloseIdempotent ==
    [][\A c \in Conns :
          /\ ws_connection[c] = "closed" => ws_connection'[c] = "closed"
          /\ CloseCall(c) =>
                /\ ws_connection'[tdService'[c]] # "open"
                /\ pc[c] = "relay" =>
                      ws_connection'[tdService'[c]] =
                          IF ws_connection[tdService'[c]] = "none" THEN "none" ELSE "closed"
          /\ listener[c] = "shutting_down" /\ listener'[c] # "shutting_down" =>
                listener'[c] = "ended" /\ ws_connection'[c] = "closed"
          /\ pc[c] = "closing" => pc'[c] \in {"closing", "done"}]_vars

\* close_session has closed the connection while _prepare_shutdown of the
\* same service is in its sleep and will close it again.
C15_Witness ==
    \E c \in Conns :
        /\ pc[c] = "closing" /\ tdService[c] = c
        /\ listener[c] = "shutting_down" /\ ws_connection[c] = "closed"

\* ---------------------------------------------------------- task claims

\* C16 (as claimed): once the listener has taken a fatal error event, the
\* relay loop of the call stops and its finally block is entered, whatever
\* the telephony side does.
C16_FatalErrorStopsCall ==
    \A c \in Conns : (listener[c] = "shutting_down") ~> (pc[c] \in {"closing", "done"})

\* No task of the session of c is left: the listener has returned, no
\* placeholder timer is pending and no send task is pending.
NoTaskLeft(c) ==
    /\ listener[c] = "ended"
    /\ \A i \in Items : timers[c][i] = 0
    /\ send_tasks[c] = <<>>

\* C17 (as claimed): once the relay loop of a session that started a
\* listener has ended on a stop event or a disconnect, the listener returns
\* and no task of the session is left.
C17_NoOrphanTasks ==
    \A c \in Conns : (Started(c) /\ websocket_closed[c]) ~> NoTaskLeft(c)

\* ------------------------------------------------------- ordering claims

IsPrefix(a, b) == Len(a) <= Len(b) /\ SubSeq(b, 1, Len(a)) = a
\* a is b with some elements left out, the order kept.
RECURSIVE IsSubSeq(_, _)
IsSubSeq(a, b) ==
    IF a = <<>> THEN TRUE
    ELSE IF b = <<>> THEN FALSE
    ELSE IF Head(a) = Head(b) THEN IsSubSeq(Tail(a), Tail(b))
    ELSE IsSubSeq(a, Tail(b))
\* The payloads of the input_audio_buffer.append messages among s, in order.
AppendedAudio(s) ==
    LET m == SelectSeq(s, LAMBDA x : x.type = "input_audio_buffer.append")
    IN [i \in 1..Len(m) |-> m[i].audio]
\* The media frames the payloads ps make for the stream of c.
FramesOf(c, ps) == [i \in 1..Len(ps) |-> MediaFrame(stream_sid[c], ps[i])]

\* C20: the payloads of the input_audio_buffer.append messages a service
\* has sent are the payloads of the media frames received, in arrival order:
\* all of them while the backend connection is open, and none after it was
\* closed.  The frames written to the telephony connection, followed by
\* those of the pending send tasks, are the response.audio.delta payloads in
\* the order the listener processed them, each under the session's
\* streamSid and unchanged: the frames written are the first deltas, in
\* order; all deltas are written or pending while the relay loop has not
\* ended and the telephony side is there; none is scheduled after the loop
\* ended, and those pending when a write fails are dropped.
C20_NoReordering ==
    \A c \in Conns :
        /\ IsPrefix(AppendedAudio(sent[c]), arrived[c])
        /\ ws_connection[c] = "open" => AppendedAudio(sent[c]) = arrived[c]
        /\ IsPrefix(outbound[c], FramesOf(c, emitted[c]))
        /\ IsSubSeq(outbound[c] \o send_tasks[c], FramesOf(c, emitted[c]))
        /\ ~websocket_closed[c] /\ ~peer_gone[c]
              => outbound[c] \o send_tasks[c] = FramesOf(c, emitted[c])

\* Two different payloads have gone each way, and all four have been passed
\* on.
C20_Witness ==
    \E c \in Conns :
        /\ Len(arrived[c]) = 2 /\ arrived[c][1] # arrived[c][2]
        /\ AppendedAudio(sent[c]) = arrived[c]
        /\ Len(emitted[c]) = 2 /\ emitted[c][1] # emitted[c][2]
        /\ Len(outbound[c]) = 2

\* ----------------------------------------------------------- HTTP claims

\* C21: a request whose audio_url is a well-formed http(s) URL is answered
\* with status 200 and a body holding response_text; one whose audio_url is
\* not (no scheme, as in "invalid-url", or a scheme other than http and
\* https, or no host) or is missing is answered with status 422 and no
\* response_text.
C21_VoiceInput ==
    \A i \in DOMAIN http_log :
        LET u == http_log[i].request
            r == http_log[i].response
        IN /\ u \in {Url("https", "example.com", "/test-audio.wav"), Url("http", "example.com", "")}
                => r.status = 200 /\ r.response_text # Absent
           /\ u \in {Url("", "", "invalid-url"), Url("ftp", "example.com", "/a.wav"),
                     Url("https", "", "/a.wav"), NoAudioUrl}
                => r.status = 422 /\ r.response_text = Absent

\* The two requests of tests/test_api.py have been answered.
C21_Witness ==
    /\ \E i \in DOMAIN http_log :
          /\ http_log[i].request = Url("https", "example.com", "/test-audio.wav")
          /\ http_log[i].response.status = 200
    /\ \E i \in DOMAIN http_log :
          /\ http_log[i].request = Url("", "", "invalid-url")
          /\ http_log[i].response.status = 422

\* ------------------------------------------------ configuration and errors

\* The positions of session.update among the messages sent for connection c.
Updates(c) == {i \in DOMAIN sent[c] : sent[c][i] = SessionUpdate}

\* C22: once initialize_session has succeeded exactly one session.update has
\* been sent on the backend connection, it is the first message sent on that
\* connection, and so every input_audio_buffer.append comes after it; before
\* that nothing at all has been sent.
C22_ConfigurationFirst ==
    \A c \in Conns :
        /\ Started(c) => Cardinality(Updates(c)) = 1 /\ sent[c][1] = SessionUpdate
        /\ ~Started(c) => sent[c] = <<>>
        /\ \A i \in DOMAIN sent[c] :
              sent[c][i].type = "input_audio_buffer.append" => \E j \in Updates(c) : j < i

\* A session was configured and has since forwarded an audio frame.
C22_Witness ==
    \E c \in Conns :
        /\ Started(c)
        /\ Len(sent[c]) = 4
        /\ sent[c][1] = SessionUpdate
        /\ sent[c][4].type = "input_audio_buffer.append"

\* The step is the listener's iteration on an error event of connection c.
ErrorStep(c) == nEvents'[c] = nEvents[c] + 1 /\ lastEv'[c].type = ErrorEvent

\* C23: an error event with code server_error or rate_limit_exceeded leaves
\* the listener running on an open backend connection, where it takes the
\* next event; an error event with any other code or with none stops it:
\* from then on it processes no event and passes on no audio, and the one
\* thing it still does, after the drain delay, is to close the backend
\* connection and end.
C23_ErrorClassification ==
    [][\A c \in Conns :
          /\ ErrorStep(c) /\ lastEv'[c].text[1] \in {"server_error", "rate_limit_exceeded"}
                => listener'[c] = "running" /\ ws_connection'[c] = "open"
          /\ ErrorStep(c) /\ lastEv'[c].text[1] \notin {"server_error", "rate_limit_exceeded"}
                => listener'[c] = "shutting_down"
          /\ listener[c] \in {"shutting_down", "ended"}
                => /\ nEvents'[c] = nEvents[c]
                   /\ emitted'[c] = emitted[c]
                   /\ listener'[c] \in {listener[c], "ended"}
          /\ listener[c] = "shutting_down" /\ listener'[c] = "ended"
                => ws_connection'[c] = "closed"]_vars

\* Two events were processed, the second an assistant delta that is all there
\* is in the history, and no timer was created: the first was a recoverable
\* error.
C23_Witness ==
    \E c \in Conns :
        /\ nEvents[c] = 2
        /\ lastEv[c].type = AssistantDelta
        /\ conversation_history[c] = <<Turn("assistant", <<"a">>, None)>>
        /\ \A i \in Items : seen[c][i] = NoSeen

\* ------------------------------------------------------ containment claims

\* C24 (as claimed): the step in which the relay loop of either endpoint
\* processes a frame that raises (invalid JSON, a media event without its
\* media field) leaves the loop running: the endpoint stays in the loop and
\* the session is not marked closed, so that later media frames and a later
\* stop event are still read.
C24_BadFrameContained ==
    [][\A c \in Conns :
          ~frame_raised[c] /\ frame_raised'[c] =>
              /\ pc'[c] = "relay"
              /\ websocket_closed'[c] = websocket_closed[c]]_vars

\* The step is the listener's iteration on a message whose processing raises.
RaisingStep(c) ==
    nEvents'[c] = nEvents[c] + 1 /\ lastEv'[c].type \in {Malformed, FunctionCall}

\* C25 (as claimed): the step in which the processing of one backend message
\* raises (a malformed JSON message, a function call dispatched to
\* create_reservation, search_services or create_appointment) leaves the
\* listener running on its connection, where it takes the next event.
C25_EventErrorContained ==
    [][\A c \in Conns :
          RaisingStep(c) => listener'[c] = "running" /\ ws_connection'[c] = "open"]_vars

\* The step is a send task of connection c whose write fails.
FailedWrite(c) ==
    send_tasks[c] # <<>> /\ send_tasks'[c] = <<>> /\ outbound'[c] = outbound[c]

\* C26 (as claimed): the listener never waits for a write (an audio delta is
\* processed while earlier frames are still pending), and the step in which
\* the write of an outbound frame fails leaves the session marked closed
\* (websocket_closed set), so that no further outbound frame is scheduled.
C26_SendFailureDrains ==
    [][\A c \in Conns : FailedWrite(c) => websocket_closed'[c]]_vars

\* ------------------------------------------------ transcript after the call

\* The finally block of a started session has run to its end: the transcript
\* was handed to store_realtime_conversation and the registry entry removed.
TornDown(c) ==
    /\ Started(c)
    /\ pc[c] = "done"
    /\ storeCalls[c] # <<>>
    /\ realtime_services[call_sid[c]] = None

\* C27 (as claimed): once the teardown of a session has handed its transcript
\* to persistence and removed its registry entry, no step changes the
\* session's conversation_history: no placeholder timer pending at teardown
\* and no late backend event appends or rewrites a turn.
C27_TranscriptFrozen ==
    [][\A c \in Conns :
          TornDown(c) => conversation_history'[c] = conversation_history[c]]_vars

\* Only deltas with text, n of them, have been processed for the item: no
\* completed transcription, no committed event, no timer.
OnlyDeltas(c, item, n) ==
    /\ seen[c][item].deltas = n /\ seen[c][item].nonEmpty
    /\ seen[c][item].completed = 0 /\ seen[c][item].committed = 0
    /\ seen[c][item].placeholders = 0
    /\ Len(transcripts_by_item[c][item][1]) = n

\* C28 (as claimed): input-transcription deltas of two different items end up
\* in different user turns: after one delta with text for each of two items
\* the history has two user turns, one holding the text of the one item and
\* one that of the other, and no turn holds text of both.
C28_NoMixedTurns ==
    \A c \in Conns :
        OnlyDeltas(c, "T1", 1) /\ OnlyDeltas(c, "T2", 1) =>
            LET u == UserTurns(conversation_history[c]) IN
            /\ Len(u) = 2
            /\ {u[1].content, u[2].content}
                 = {transcripts_by_item[c]["T1"][1], transcripts_by_item[c]["T2"][1]}

\* Exactly one completed transcription, with text, has been processed for the
\* item, and nothing else.
OnlyCompleted(c, item) ==
    /\ seen[c][item].completed = 1 /\ seen[c][item].nonEmpty
    /\ seen[c][item].deltas = 0 /\ seen[c][item].committed = 0
    /\ seen[c][item].placeholders = 0

\* C30 (as claimed): two completed transcriptions of different items, neither
\* item having an entry before, leave two user turns, one tagged with each
\* item and holding its transcript, also when the two texts are the same.
C30_NoDedupDrop ==
    \A c \in Conns :
        OnlyCompleted(c, "T1") /\ OnlyCompleted(c, "T2") =>
            \A item \in Items :
                /\ Len(TaggedTurns(conversation_history[c], item)) = 1
                /\ TaggedTurns(conversation_history[c], item)[1].content
                     = transcripts_by_item[c][item][1]

\* ------------------------------------------------------- failed handshake

\* C29 (as claimed): an endpoint that has returned after a handshake that did
\* not yield both a streamId and a callId (a start frame with streamSid but
\* without callSid included) has left no entry for its connection in
\* active_connections and none in realtime_services, and has created no
\* backend connection.
C29_FailedHandshakeClean ==
    \A c \in Conns :
        pc[c] = "done" /\ (stream_sid[c] = None \/ call_sid[c] = None) =>
            /\ \A s \in StreamIds : active_connections[s] # c
            /\ \A k \in CallIds : realtime_services[k] # c
            /\ ws_connection[c] = "none"

====
